---- MODULE Spec2Model ----
(***************************************************************************)
(* A/B traffic-split workflow of the Lab3 notebook                         *)
(* "(Optional)task2_ab_testing_with_variant.ipynb": two production         *)
(* variants behind one endpoint, weight updates followed by a wait, the    *)
(* per-variant accuracy evaluation, and the endpoint's deletion.           *)
(*                                                                         *)
(* The notebook's cells are bare SDK calls.  What a cell does locally is   *)
(* taken from the cell.  The hosting service that answers the calls is not *)
(* part of the repository; its lifecycle and its answers follow the        *)
(* endpoint state machine of the design document.  The helper module       *)
(* `utils` (endpoint_update_wait, invoke_with_single_sentence) is not      *)
(* among the sources; its loops follow the design document as well.        *)
(***************************************************************************)
EXTENDS Integers, Sequences, FiniteSets, TLC

VARIABLES
    epState,    \* lifecycle state of the endpoint at the hosting service
    weights,    \* CurrentWeight of each production variant (service side)
    desired,    \* DesiredWeight of the last accepted update (service side)
    pc,         \* where the single-threaded caller is
    target,     \* mapping the running wait is polling for
    polls,      \* polls done by the running wait
    mirror,     \* weights as last read from the service by the caller
    steps,      \* step list of the progressive rollout the caller is in
    stepIdx,    \* 1-based index of the rollout step in progress or just done
    pause,      \* how far the cells between two rollout steps have run
    served,     \* variant that served the last invocation
    last,       \* outcome of the last finished call
    samples,    \* evaluation batch: one record per sample
    predictions,\* responses collected by the per-sample invocation loop
    errorCount, \* failed invocations of the batch
    table,      \* prediction table: one label per row
    accuracy,   \* result of the accuracy cell
    evariant,   \* variant under evaluation
    epc,        \* where the evaluation is
    registry,   \* variants declared so far, in the order of their declaration
    train,      \* one call of train_model: arguments, position, optimizer, log
    sweep,      \* the hyperparameter sweep: position, runs and training jobs
    analysis    \* one call of analyze_experiment: arguments, dataframe, result

vars == <<epState, weights, desired, pc, target, polls, mirror, steps,
          stepIdx, pause, served, last, samples, predictions, errorCount, table,
          accuracy, evariant, epc, registry, train, sweep, analysis>>

endpointVars == <<epState, weights, desired, pc, target, polls, mirror,
                  steps, stepIdx, pause, served, last>>

evalVars == <<samples, predictions, errorCount, table, accuracy, evariant, epc>>

\* the state of the experiment notebooks
experimentVars == <<train, sweep, analysis>>

----------------------------------------------------------------------------
(* Bounds of the model *)

\* polls a wait makes before it gives up (max_wait / poll_interval)
MaxPolls == 5

\* longest evaluation batch
MaxSamples == 2

\* most variants declared
MaxVariants == 3

\* most epochs of a training
MaxEpochs == 2

\* batches the test loader yields
TestBatches == 2

\* longest parameter list of an analysis
MaxParameters == 2

----------------------------------------------------------------------------
(* Variants and weight mappings *)

Variant1 == "Variant1"
Variant2 == "Variant2"
\* a variant name that is on no endpoint
Variant3 == "Variant3"

ProductionVariants == {Variant1, Variant2}

WeightMap(a, b) == (Variant1 :> a @@ Variant2 :> b)

\* a mapping one of whose keys names no variant of the endpoint
UnknownKeyMap == (Variant1 :> 75 @@ Variant3 :> 25)

\* the notebook's splits (1/1, 75/25, 1/0), the design document's (25/75,
\* 0/100-equivalent), and the split that takes every variant to weight 0
ValidMaps == { WeightMap(1, 1), WeightMap(75, 25), WeightMap(1, 0),
               WeightMap(25, 75), WeightMap(0, 1), WeightMap(0, 0) }

\* a mapping that names only one of the endpoint's variants
PartialMap == (Variant2 :> 0)

RequestMaps == ValidMaps \cup {UnknownKeyMap, PartialMap}

\* The notebook's two weight updates, in the order of its cells: 75/25, then
\* DesiredWeight 1 for Variant1 and 0 for Variant2.
NotebookSteps == <<WeightMap(75, 25), WeightMap(1, 0)>>

StepLists == { NotebookSteps,
               <<WeightMap(25, 75), WeightMap(0, 1)>>,
               <<WeightMap(75, 25), UnknownKeyMap>>,
               <<WeightMap(1, 1), WeightMap(75, 25)>> }

NoMap == <<>>

RECURSIVE SumOver(_, _)
SumOver(f, S) ==
    IF S = {} THEN 0
    ELSE LET v == CHOOSE x \in S : TRUE IN f[v] + SumOver(f, S \ {v})

WeightSum(w) == SumOver(w, DOMAIN w)

LifecycleStates ==
    {"None", "Creating", "InService", "Updating", "Deleting", "Deleted", "Error"}

Result(op, arg, outcome, issued, step) ==
    [op |-> op, arg |-> arg, outcome |-> outcome, issued |-> issued, step |-> step]

----------------------------------------------------------------------------
(* The hosting service: lifecycle and answers to requests *)

\* a service that accepts an update while another one is in flight
UpdateAnswerQueued(st, m) ==
    IF ~(DOMAIN m \subseteq ProductionVariants) THEN "UnknownVariantError"
    ELSE IF st \notin {"InService", "Updating"} THEN "UpdateRejectedError"
    ELSE "ok"

\* The service's answer to a weight-update request: every key must name a
\* variant of the endpoint, and the endpoint must be InService (an endpoint
\* that is being created, updated or deleted is busy).
UpdateAnswer(st, m) ==
    IF ~(DOMAIN m \subseteq ProductionVariants) THEN "UnknownVariantError"
    ELSE IF st # "InService" THEN "UpdateRejectedError"
    ELSE "ok"

\* a service that starts a deletion whatever the endpoint's state
DeleteAnswerAlways(st) == "ok"

\* The service's answer to a delete request: an endpoint that is InService
\* or Updating starts deleting; a request that names an endpoint which is
\* not there (any longer) is answered with an error.
DeleteAnswer(st) ==
    IF st \in {"InService", "Updating"} THEN "ok" ELSE "EndpointNotFoundError"

\* a service that routes to every variant, whatever its weight
RoutableAll(w) == DOMAIN w

\* The variants the service may pick for a request without a target
\* override: weighted random routing, so only variants of positive weight.
Routable(w) == {v \in DOMAIN w : w[v] > 0}

\* Creating -> InService
CPProvisioned ==
    /\ epState = "Creating"
    /\ epState' = "InService"
    /\ UNCHANGED <<weights, desired, pc, target, polls, mirror, steps, stepIdx,
                   served, last>>
    /\ UNCHANGED pause
    /\ UNCHANGED <<evalVars, registry, experimentVars>>

\* Creating -> Error
CPProvisionFailed ==
    /\ epState = "Creating"
    /\ epState' = "Error"
    /\ UNCHANGED <<weights, desired, pc, target, polls, mirror, steps, stepIdx,
                   served, last>>
    /\ UNCHANGED pause
    /\ UNCHANGED <<evalVars, registry, experimentVars>>

\* an update that reaches the first variant only
CPApplyUpdateHalf ==
    /\ epState = "Updating"
    /\ epState' = "InService"
    /\ weights' = [weights EXCEPT ![Variant1] = desired[Variant1]]
    /\ UNCHANGED <<desired, pc, target, polls, mirror, steps, stepIdx,
                   served, last>>
    /\ UNCHANGED pause
    /\ UNCHANGED <<evalVars, registry, experimentVars>>

\* Updating -> InService: the accepted mapping becomes the current weights,
\* all keys in one step.
CPApplyUpdate ==
    /\ epState = "Updating"
    /\ epState' = "InService"
    /\ weights' = desired
    /\ UNCHANGED <<desired, pc, target, polls, mirror, steps, stepIdx, served,
                   last>>
    /\ UNCHANGED pause
    /\ UNCHANGED <<evalVars, registry, experimentVars>>

\* Updating -> Error
CPUpdateFailed ==
    /\ epState = "Updating"
    /\ epState' = "Error"
    /\ UNCHANGED <<weights, desired, pc, target, polls, mirror, steps, stepIdx,
                   served, last>>
    /\ UNCHANGED pause
    /\ UNCHANGED <<evalVars, registry, experimentVars>>

\* Deleting -> Deleted
CPDeleted ==
    /\ epState = "Deleting"
    /\ epState' = "Deleted"
    /\ UNCHANGED <<weights, desired, pc, target, polls, mirror, steps, stepIdx,
                   served, last>>
    /\ UNCHANGED pause
    /\ UNCHANGED <<evalVars, registry, experimentVars>>

----------------------------------------------------------------------------
(* Declaring the variants *)

\* sagemaker.production_variant(model_name, instance_type,
\* initial_instance_count, variant_name, initial_weight): the description of
\* one variant, built from the arguments as they are.
ProductionVariant(id, w) == [VariantName |-> id, InitialVariantWeight |-> w]

\* production_variant looks neither at the variants declared before nor at
\* the weight: every declaration succeeds.
RegisterAnswer(reg, id, w) == "ok"

\* names and initial weights a declaration is tried with
VariantIds == {Variant1, Variant2}
InitialWeights == {-1, 0, 1}

\* variantN = sagemaker.production_variant(...); the variants are kept in
\* the order of their declaration ((variant1, variant2)).
Register(id, w) ==
    /\ pc = "idle"
    /\ epState = "None"
    /\ Len(registry) < MaxVariants
    /\ registry' = IF RegisterAnswer(registry, id, w) = "ok"
                   THEN Append(registry, ProductionVariant(id, w))
                   ELSE registry
    /\ last' = Result("register", ProductionVariant(id, w),
                      RegisterAnswer(registry, id, w), FALSE, 0)
    /\ UNCHANGED <<epState, weights, desired, pc, target, polls, mirror, steps,
                   stepIdx, served>>
    /\ UNCHANGED pause
    /\ UNCHANGED <<evalVars, experimentVars>>

\* the two declarations of the notebook, with initial weights a and b
Declared(a, b) == <<ProductionVariant(Variant1, a), ProductionVariant(Variant2, b)>>

\* the weight mapping an endpoint created from the declared variants starts with
WeightsOf(reg) ==
    [v \in {reg[i].VariantName : i \in DOMAIN reg} |->
        reg[CHOOSE i \in DOMAIN reg : reg[i].VariantName = v].InitialVariantWeight]

----------------------------------------------------------------------------
(* The notebook's calls *)

\* The service's answers to a creation request: it may reject any request
\* (ProvisioningError), and it rejects one for a name it has already seen;
\* the notebook's name is fixed by time_now, so a second run of the cell
\* asks for the same name.
CreateAnswers(st) ==
    IF st = "None" THEN {"ok", "ProvisioningError"} ELSE {"ProvisioningError"}

\* a creating call that returns as soon as the request is accepted
\* (wait=False)
CreateNoWait(iw, answer) ==
    /\ pc = "idle"
    /\ answer \in CreateAnswers(epState)
    /\ IF answer = "ok"
       THEN /\ epState' = "Creating"
            /\ weights' = iw
            /\ desired' = iw
            /\ last' = Result("awaitReady", NoMap, "ok", TRUE, 0)
       ELSE /\ last' = Result("create", iw, answer, TRUE, 0)
            /\ UNCHANGED <<epState, weights, desired>>
    /\ steps' = <<>>
    /\ stepIdx' = 0
    /\ UNCHANGED <<pc, polls, target, mirror, served>>
    /\ pause' = "none"
    /\ UNCHANGED <<evalVars, registry, experimentVars>>

\* production_variant(..., initial_weight=w) for Variant1 and Variant2, then
\* endpoint_from_production_variants(name, [variant1, variant2]): one call,
\* with wait left at its default.  An accepted request is followed by the
\* wait for the endpoint inside the same call, so the cell has not returned
\* until the wait is over (AwaitPoll); a rejected request raises at once.
Create(iw, answer) ==
    /\ pc = "idle"
    /\ answer \in CreateAnswers(epState)
    /\ IF answer = "ok"
       THEN /\ epState' = "Creating"
            /\ weights' = iw
            /\ desired' = iw
            /\ pc' = "await"
            /\ last' = Result("create", iw, "ok", TRUE, 0)
       ELSE /\ last' = Result("create", iw, answer, TRUE, 0)
            /\ UNCHANGED <<epState, weights, desired, pc>>
    /\ polls' = 0
    /\ steps' = <<>>
    /\ stepIdx' = 0
    /\ UNCHANGED <<target, mirror, served>>
    /\ pause' = "none"
    /\ UNCHANGED <<evalVars, registry, experimentVars>>

\* The update cell hands its mapping to update_endpoint_weights_and_capacities
\* as it is: no test of the variant names, of the weights or of the endpoint's
\* state comes before the call, so every call is a request to the service.
RequestIssued(m) == TRUE

\* an update that replaces the endpoint's variants by those of the mapping
MergedReplace(des, m) == m

\* The desired weights after an accepted update: the mapping's weight for
\* the variants it names, the former weight for the others. The variant set
\* is the endpoint's, whatever the mapping names.
Merged(des, m) == [v \in DOMAIN des |-> IF v \in DOMAIN m THEN m[v] ELSE des[v]]

\* What an update request does to the endpoint: an accepted one makes the
\* endpoint Updating with the mapping as its desired weights; a rejected one
\* changes nothing.
AfterUpdateRequest(st, des, m) ==
    IF UpdateAnswer(st, m) = "ok"
    THEN [state |-> "Updating", desired |-> Merged(des, m)]
    ELSE [state |-> st, desired |-> des]

\* sm_client.update_endpoint_weights_and_capacities(EndpointName, DesiredWeightsAndCapacities)
SetWeights(m) ==
    /\ pc = "idle"
    /\ epState' = AfterUpdateRequest(epState, desired, m).state
    /\ desired' = AfterUpdateRequest(epState, desired, m).desired
    /\ last' = Result("setWeights", m, UpdateAnswer(epState, m), RequestIssued(m), 0)
    /\ steps' = <<>>
    /\ stepIdx' = 0
    /\ UNCHANGED <<weights, pc, target, polls, mirror, served>>
    /\ pause' = "none"
    /\ UNCHANGED <<evalVars, registry, experimentVars>>

\* The cells the notebook runs after a wait, in their order: the read of
\* the weights that ends the cell of the wait ("read"), the invocations of
\* utils.invoke_endpoint_for_two_minutes ("invoke"), and time.sleep(20)
\* with the plot of the metrics ("sleep"); after them the pause before the
\* next update has elapsed.  A request that changes the endpoint (an update,
\* a creation, a deletion) starts anew ("none").
PauseStages == {"none", "read", "invoke", "sleep", "elapsed"}

\* the read of the weights comes first, after a wait or on its own (the
\* notebook's first read follows no update)
AfterRead(p) == IF p \in {"none", "read"} THEN "invoke" ELSE p

\* the two minutes of invocations send requests without TargetVariant; the
\* sleep of the cell follows them
AfterInvocation(p, req) == IF p = "invoke" /\ req = NoMap THEN "sleep" ELSE p

\* a read that answers from the caller's mirror instead of the service
ReadWeightsStale(w) == mirror

\* a read that takes each variant's DesiredWeight instead of its CurrentWeight
ReadWeightsDesired(w) == desired

\* {variant["VariantName"]: variant["CurrentWeight"] for variant in
\*  describe_endpoint(...)["ProductionVariants"]}: the service's weights
\* at the time of the call.
ReadWeights(w) == [v \in DOMAIN w |-> w[v]]

\* the service knows the endpoint: describe_endpoint answers for it
EndpointExists(st) == st \notin {"None", "Deleted"}

\* The service's answer to describe_endpoint: the endpoint's description,
\* or an error for a name it does not know (never created, or deleted).
DescribeAnswer(st) == IF EndpointExists(st) THEN "ok" ELSE "EndpointNotFoundError"

\* a read that also makes the desired weights the current ones
CurrentWeightsSync ==
    /\ pc = "idle"
    /\ IF DescribeAnswer(epState) = "ok"
       THEN /\ mirror' = ReadWeights(weights)
            /\ weights' = IF desired = NoMap THEN weights ELSE desired
            /\ last' = Result("currentWeights", ReadWeights(weights), "ok", TRUE, 0)
            /\ pause' = AfterRead(pause)
       ELSE /\ last' = Result("currentWeights", NoMap, DescribeAnswer(epState),
                              TRUE, 0)
            /\ UNCHANGED <<mirror, weights, pause>>
    /\ UNCHANGED <<epState, desired, pc, target, polls, steps, stepIdx, served>>
    /\ UNCHANGED <<evalVars, registry, experimentVars>>

\* The read cell: describe_endpoint is sent whatever the endpoint's state
\* (nothing in the cell looks at the endpoint first or handles an error).
\* With the service's description the cell builds and keeps the mapping;
\* the service's error for a missing endpoint ends the cell, and nothing the
\* caller holds is changed.
CurrentWeights ==
    /\ pc = "idle"
    /\ IF DescribeAnswer(epState) = "ok"
       THEN /\ mirror' = ReadWeights(weights)
            /\ last' = Result("currentWeights", ReadWeights(weights), "ok", TRUE, 0)
            /\ pause' = AfterRead(pause)
       ELSE /\ last' = Result("currentWeights", NoMap, DescribeAnswer(epState),
                              TRUE, 0)
            /\ UNCHANGED <<mirror, pause>>
    /\ UNCHANGED <<epState, weights, desired, pc, target, polls, steps, stepIdx,
                   served>>
    /\ UNCHANGED <<evalVars, registry, experimentVars>>

\* sm_session.delete_endpoint(endpoint_name): the request goes to the service
\* and the service's answer is the cell's result; nothing in the cell looks
\* at the endpoint first or handles an error.
Delete ==
    /\ pc = "idle"
    /\ epState' = (IF DeleteAnswer(epState) = "ok" THEN "Deleting" ELSE epState)
    /\ last' = Result("delete", NoMap, DeleteAnswer(epState), TRUE, 0)
    /\ steps' = <<>>
    /\ stepIdx' = 0
    /\ UNCHANGED <<weights, desired, pc, target, polls, mirror, served>>
    /\ pause' = "none"
    /\ UNCHANGED <<evalVars, registry, experimentVars>>

\* The variants that may serve an invocation: the named one when the request
\* carries TargetVariant, any routable one otherwise.
ServingVariants(w, tv) ==
    IF tv = "none" THEN Routable(w)
    ELSE IF tv \in DOMAIN w THEN {tv} ELSE {}

\* a cell that leaves the TargetVariant argument out of its request
RequestUnpinned(tv) == NoMap

\* The request a cell sends for an invocation: EndpointName, Body and
\* ContentType, and TargetVariant when the invocation is pinned (tv is
\* "none" for the cells that do not pin).
Request(tv) == IF tv = "none" THEN NoMap ELSE [TargetVariant |-> tv]

\* the override a request carries, "none" without one
TargetOf(req) == IF req = NoMap THEN "none" ELSE req.TargetVariant

\* sm_runtime.invoke_endpoint(EndpointName, Body, ContentType[, TargetVariant])
Invoke(tv) ==
    /\ pc = "idle"
    /\ IF /\ epState \in {"InService", "Updating"}
          /\ ServingVariants(weights, TargetOf(Request(tv))) # {}
       THEN /\ \E v \in ServingVariants(weights, TargetOf(Request(tv))) : served' = v
            /\ last' = Result("invoke", Request(tv), "ok", TRUE, 0)
       ELSE /\ served' = served
            /\ last' = Result("invoke", Request(tv),
                              IF /\ TargetOf(Request(tv)) # "none"
                                 /\ TargetOf(Request(tv)) \notin ProductionVariants
                              THEN "UnknownVariantError" ELSE "InvocationError",
                              TRUE, 0)
    /\ UNCHANGED <<epState, weights, desired, pc, target, polls, mirror, steps,
                   stepIdx>>
    /\ pause' = AfterInvocation(pause, Request(tv))
    /\ UNCHANGED <<evalVars, registry, experimentVars>>

----------------------------------------------------------------------------
(* The waits: awaitReady, shiftTraffic, progressiveRollout *)

\* awaitReady stops polling on these states
ReadyOrGone(st) == st \in {"InService", "Deleted", "Error"}

\* The notebook waits for the endpoint inside endpoint_from_production_variants
\* (wait is left at its default): the call passes no maximum wait and the
\* cell has no loop or deadline of its own, so no number of polls ends it.
AwaitBudgetUsed(n) == FALSE

\* The waiting calls are given the endpoint's name and nothing else
\* (endpoint_from_production_variants(name=..., production_variants=...),
\* utils.endpoint_update_wait(endpoint_name)): no cancellation token and no
\* deadline is passed, and no handler stands around them.  A cancellation
\* the caller asks for while the call waits reaches none of its polls.
CancellationObserved(cancel) == FALSE

\* One poll of the wait the creating call includes (awaitReady), cancel
\* telling whether the caller has asked for the wait to be cancelled: read
\* the state; the call returns when it is InService and raises when it is
\* Deleted or Error; poll again otherwise. The polls are counted up to
\* MaxPolls.
AwaitPoll(cancel) ==
    /\ pc = "await"
    /\ IF CancellationObserved(cancel)
       THEN /\ pc' = "idle"
            /\ polls' = 0
            /\ last' = Result("awaitReady", NoMap, "Cancelled", TRUE, 0)
       ELSE IF ReadyOrGone(epState)
       THEN /\ pc' = "idle"
            /\ polls' = 0
            /\ last' = Result("awaitReady", NoMap,
                              IF epState = "InService" THEN "ok" ELSE epState,
                              TRUE, 0)
       ELSE IF AwaitBudgetUsed(polls)
       THEN /\ pc' = "idle"
            /\ polls' = 0
            /\ last' = Result("awaitReady", NoMap, "ProvisioningTimeoutError",
                              TRUE, 0)
       ELSE /\ pc' = pc
            /\ polls' = IF polls < MaxPolls THEN polls + 1 ELSE polls
            /\ last' = last
    /\ UNCHANGED <<epState, weights, desired, target, mirror, steps, stepIdx,
                   served>>
    /\ UNCHANGED pause
    /\ UNCHANGED <<evalVars, registry, experimentVars>>

\* a wait that takes its first read for the target
WeightsMatchAny(obs, tgt) == TRUE

\* shiftTraffic's test of a poll: the mapping read equals the target exactly
WeightsMatch(obs, tgt) == obs = tgt

\* shiftTraffic(endpoint, m, poll_interval, max_wait): the update cell
\* followed by the wait.  A rejected update ends the call at once.
ShiftTraffic(m) ==
    /\ pc = "idle"
    /\ epState' = AfterUpdateRequest(epState, desired, m).state
    /\ desired' = AfterUpdateRequest(epState, desired, m).desired
    /\ IF UpdateAnswer(epState, m) = "ok"
       THEN /\ pc' = "shift"
            /\ target' = m
            /\ last' = last
       ELSE /\ pc' = "idle"
            /\ target' = NoMap
            /\ last' = Result("shiftTraffic", m, UpdateAnswer(epState, m),
                              RequestIssued(m), 0)
    /\ polls' = 0
    /\ steps' = <<>>
    /\ stepIdx' = 0
    /\ UNCHANGED <<weights, mirror, served>>
    /\ pause' = "none"
    /\ UNCHANGED <<evalVars, registry, experimentVars>>

\* One poll of the wait, cancel telling whether the caller has asked for
\* the wait to be cancelled: read the weights; on an exact match the call
\* returns, the cells that follow a wait still to run (a rollout keeps its
\* list and the index of the step just finished until the caller's next
\* request: with steps left the caller is idle between two steps); with
\* the budget used up it fails with RolloutTimeoutError; otherwise it polls
\* again.  The wait is given the endpoint's name only: what it returns or
\* raises says nothing of a step.
ShiftPoll(cancel) ==
    /\ pc = "shift"
    /\ IF CancellationObserved(cancel)
       THEN /\ last' = Result("shiftTraffic", target, "Cancelled", TRUE, 0)
            /\ pc' = "idle"
            /\ steps' = <<>>
            /\ stepIdx' = 0
            /\ pause' = "none"
            /\ target' = NoMap
            /\ polls' = 0
            /\ UNCHANGED <<epState, desired, mirror>>
       ELSE IF WeightsMatch(ReadWeights(weights), target)
       THEN /\ mirror' = ReadWeights(weights)
            /\ last' = Result("shiftTraffic", target, "ok", TRUE, 0)
            /\ epState' = epState
            /\ desired' = desired
            /\ pc' = "idle"
            /\ pause' = "read"
            /\ UNCHANGED <<steps, stepIdx>>
            /\ target' = NoMap
            /\ polls' = 0
       ELSE IF polls + 1 >= MaxPolls
       THEN /\ mirror' = ReadWeights(weights)
            /\ last' = Result("shiftTraffic", target, "RolloutTimeoutError",
                              TRUE, 0)
            /\ epState' = epState
            /\ desired' = desired
            /\ pc' = "idle"
            /\ steps' = <<>>
            /\ stepIdx' = 0
            /\ pause' = "none"
            /\ target' = NoMap
            /\ polls' = 0
       ELSE /\ mirror' = ReadWeights(weights)
            /\ polls' = polls + 1
            /\ UNCHANGED <<epState, desired, pc, target, steps, stepIdx, pause,
                           last>>
    /\ UNCHANGED <<weights, served>>
    /\ UNCHANGED <<evalVars, registry, experimentVars>>

\* The step a rollout takes after step k: the next one of the list
NextStep(k) == k + 1

\* Issue step k of the list ss: the update cell, then its wait.  A rejected
\* request raises the error of update_endpoint_weights_and_capacities as it
\* is (nothing stands around the call, and the call is not told which step
\* it is), and the rollout is over.
IssueStep(ss, k) ==
    /\ epState' = AfterUpdateRequest(epState, desired, ss[k]).state
    /\ desired' = AfterUpdateRequest(epState, desired, ss[k]).desired
    /\ IF UpdateAnswer(epState, ss[k]) = "ok"
       THEN /\ pc' = "shift"
            /\ target' = ss[k]
            /\ steps' = ss
            /\ stepIdx' = k
            /\ last' = last
       ELSE /\ pc' = "idle"
            /\ target' = NoMap
            /\ steps' = <<>>
            /\ stepIdx' = 0
            /\ last' = Result("shiftTraffic", ss[k],
                              UpdateAnswer(epState, ss[k]), RequestIssued(ss[k]), 0)
    /\ polls' = 0
    /\ UNCHANGED <<weights, mirror, served>>
    /\ pause' = "none"
    /\ UNCHANGED <<evalVars, registry, experimentVars>>

\* progressiveRollout over the list ss: the notebook's successive
\* update-and-wait cells, first step.
ProgressiveRollout(ss) ==
    /\ pc = "idle"
    /\ IssueStep(ss, 1)

\* a rollout is between two of its steps: the wait of step stepIdx has
\* returned and steps are left
BetweenSteps == pc = "idle" /\ stepIdx >= 1 /\ stepIdx < Len(steps)

\* the cells between the two update cells have run
PauseElapsed(p) == p = "elapsed"

\* time.sleep(20)  # give metrics time to catch up, and the plot of the
\* metrics: the end of the cell of the invocations, which is the last of the
\* cells between two updates.
PauseSleep ==
    /\ pc = "idle"
    /\ pause = "sleep"
    /\ pause' = "elapsed"
    /\ UNCHANGED <<epState, weights, desired, pc, target, polls, mirror, steps,
                   stepIdx, served, last>>
    /\ UNCHANGED <<evalVars, registry, experimentVars>>

\* The next update cell of a rollout, run when the cells between the two
\* steps have run: the read of the weights, the two minutes of invocations
\* and the sleep (CurrentWeights, Invoke, PauseSleep), which leave the
\* rollout where it is.  Any other request to the endpoint (a bare update,
\* a creation, a deletion, another shift or rollout) is not a cell of the
\* rollout and leaves it.
RolloutNext ==
    /\ BetweenSteps
    /\ PauseElapsed(pause)
    /\ IssueStep(steps, NextStep(stepIdx))

----------------------------------------------------------------------------
(* The experiment notebooks at rest *)

TrainOff == [pc |-> "off", optimizer |-> "sgd", epochs |-> 0,
             hidden_channels |-> 10, params |-> <<>>, used |-> "none",
             epoch |-> 0, trained |-> 0, batch |-> 0, log |-> <<>>]

SweepOff == [pc |-> "off", cell |-> "first", h |-> 1, j |-> 1, name |-> "none",
             raised |-> FALSE, open |-> {}, closed |-> {}, jobs |-> <<>>]

AnalysisOff == [pc |-> "off", experiment |-> {}, parameters |-> <<>>,
                columns |-> {}, rows |-> <<>>,
                categorical |-> <<>>, cat_col_name |-> "", ordinal_params |-> <<>>,
                melted |-> FALSE, result |-> "none"]

ExperimentsOff ==
    /\ train = TrainOff
    /\ sweep = SweepOff
    /\ analysis = AnalysisOff

----------------------------------------------------------------------------
(* The endpoint specification *)

EvalOff ==
    /\ samples = <<>>
    /\ predictions = <<>>
    /\ errorCount = 0
    /\ table = <<>>
    /\ accuracy = [status |-> "none", num |-> 0, den |-> 1]
    /\ evariant = Variant1
    /\ epc = "off"

InitEndpoint ==
    /\ epState = "None"
    /\ weights = NoMap
    /\ desired = NoMap
    /\ pc = "idle"
    /\ target = NoMap
    /\ polls = 0
    /\ mirror = NoMap
    /\ steps = <<>>
    /\ stepIdx = 0
    /\ pause = "none"
    /\ served = "none"
    /\ last = Result("none", NoMap, "ok", FALSE, 0)
    /\ EvalOff

\* the endpoint specification starts with Variant1 and Variant2 declared as
\* the notebook declares them, each with initial_weight=1
Init ==
    /\ InitEndpoint
    /\ registry = Declared(1, 1)
    /\ ExperimentsOff

Next ==
    \/ \E iw \in ValidMaps, answer \in {"ok", "ProvisioningError"} :
          iw = WeightsOf(registry) /\ Create(iw, answer)
    \/ \E cancel \in BOOLEAN : AwaitPoll(cancel)
    \/ \E tv \in {"none", Variant1, Variant2, Variant3} : Invoke(tv)
    \/ \E m \in RequestMaps : SetWeights(m)
    \/ CurrentWeights
    \/ Delete
    \/ \E ss \in StepLists : ProgressiveRollout(ss)
    \/ PauseSleep
    \/ RolloutNext
    \/ \E m \in RequestMaps : ShiftTraffic(m)
    \/ \E cancel \in BOOLEAN : ShiftPoll(cancel)
    \/ CPProvisioned
    \/ CPProvisionFailed
    \/ CPApplyUpdate
    \/ CPUpdateFailed
    \/ CPDeleted

Spec == Init /\ [][Next]_vars

----------------------------------------------------------------------------
(* The notebook's A/B workflow: its cells in their order, each run once its
   predecessor has returned without an error.  Where the notebook stands is
   told by the result of the last call and by the weights last read; a cell
   that raises ends the run. *)

Returned(op, arg) == last.op = op /\ last.arg = arg /\ last.outcome = "ok"

\* the endpoint is created from the declared variants; the cell returns when
\* the wait of the call is over
NbCreate ==
    /\ last.op = "none"
    /\ \E answer \in {"ok", "ProvisioningError"} : Create(WeightsOf(registry), answer)

\* for i in range(5): sm_runtime.invoke_endpoint(...) without TargetVariant,
\* once the creating cell has returned
NbInvokeLoop ==
    /\ mirror = NoMap
    /\ Returned("awaitReady", NoMap) \/ Returned("invoke", NoMap)
    /\ Invoke("none")

\* the pinned invocations: the two TargetVariant cells and the per-sample
\* invocations of the two evaluations
NbInvokePinned(v) ==
    /\ mirror = NoMap
    /\ last.op = "invoke"
    /\ last.outcome = "ok"
    /\ Invoke(v)

\* the first read of the weights
NbRead ==
    /\ mirror = NoMap
    /\ last.op = "invoke"
    /\ last.arg # NoMap
    /\ last.outcome = "ok"
    /\ CurrentWeights

\* the read that ends an update cell, after its wait has returned
NbReadAfterUpdate ==
    /\ last.op = "shiftTraffic"
    /\ last.outcome = "ok"
    /\ CurrentWeights

\* utils.invoke_endpoint_for_two_minutes(endpoint_name): unpinned requests,
\* after each read of the weights
NbInvokeTwoMinutes ==
    /\ mirror # NoMap
    /\ last.op \in {"currentWeights", "invoke"}
    /\ last.outcome = "ok"
    /\ ~PauseElapsed(pause)
    /\ Invoke("none")

\* time.sleep(20) and the plot that end the cell of the invocations
NbSleep ==
    /\ Returned("invoke", NoMap)
    /\ PauseSleep

\* the weights the notebook has read when it sends its k-th update
ReadBefore(k) == IF k = 1 THEN WeightsOf(registry) ELSE NotebookSteps[k - 1]

\* the k-th update cell: the update request, then utils.endpoint_update_wait;
\* the second one is run when the cells between the two have run
NbUpdate(k) ==
    /\ Returned("invoke", NoMap)
    /\ mirror = ReadBefore(k)
    /\ PauseElapsed(pause)
    /\ IF k = 1 THEN ProgressiveRollout(NotebookSteps)
       ELSE steps = NotebookSteps /\ stepIdx = k - 1 /\ RolloutNext

\* sm_session.delete_endpoint(endpoint_name), the notebook's last cell
NbDelete ==
    /\ Returned("invoke", NoMap)
    /\ PauseElapsed(pause)
    /\ mirror = NotebookSteps[Len(NotebookSteps)]
    /\ Delete

NextNotebook ==
    \/ NbCreate
    \/ \E cancel \in BOOLEAN : AwaitPoll(cancel)
    \/ NbInvokeLoop
    \/ \E v \in ProductionVariants : NbInvokePinned(v)
    \/ NbRead
    \/ NbInvokeTwoMinutes
    \/ NbSleep
    \/ \E k \in DOMAIN NotebookSteps : NbUpdate(k)
    \/ \E cancel \in BOOLEAN : ShiftPoll(cancel)
    \/ NbReadAfterUpdate
    \/ NbDelete
    \/ CPProvisioned
    \/ CPProvisionFailed
    \/ CPApplyUpdate
    \/ CPUpdateFailed
    \/ CPDeleted

SpecNotebook == Init /\ [][NextNotebook]_vars

----------------------------------------------------------------------------
(* The specification of the declarations *)

InitRegistry ==
    /\ InitEndpoint
    /\ registry = <<>>
    /\ ExperimentsOff

NextRegistry == \E id \in VariantIds, w \in InitialWeights : Register(id, w)

SpecRegistry == InitRegistry /\ [][NextRegistry]_vars

----------------------------------------------------------------------------
(* Evaluation of one variant: invoke per sample, build the prediction table,
   map the labels, compute the accuracy *)

\* What a variant answers for one sentence, as label/score rows.  Variant1
\* answers with its best label only; Variant2 answers with a score for each
\* of its two labels (scores in tenths).
Row(l, sc) == [label |-> l, score |-> sc]

ResponsesOf(v) ==
    IF v = Variant1
    THEN { <<Row("LABEL_0", 9)>>, <<Row("LABEL_1", 9)>>, <<Row("LABEL_2", 9)>> }
    ELSE { <<Row("NEGATIVE", 9), Row("POSITIVE", 1)>>,
           <<Row("NEGATIVE", 1), Row("POSITIVE", 9)>>,
           <<Row("NEGATIVE", 5), Row("POSITIVE", 5)>> }

Sentiments == {"negative", "neutral", "positive"}

\* value_map of the prediction table, per variant
ValueMapOf(v) ==
    IF v = Variant1
    THEN ("LABEL_0" :> 0 @@ "LABEL_1" :> 1 @@ "LABEL_2" :> 2)
    ELSE ("NEGATIVE" :> 0 @@ "POSITIVE" :> 1)

\* value_map of the ground truth
GroundTruthMap == ("negative" :> 0 @@ "neutral" :> 1 @@ "positive" :> 2)

\* one sample: the sentence's expected sentiment, the response the variant
\* gives for it, and whether its invocation gets through
SampleSet(v) ==
    [response : ResponsesOf(v), expected : Sentiments, ok : BOOLEAN]

RECURSIVE SeqsUpTo(_, _)
SeqsUpTo(S, n) ==
    IF n = 0 THEN {<<>>}
    ELSE LET shorter == SeqsUpTo(S, n - 1)
         IN shorter \cup {Append(q, x) : q \in {r \in shorter : Len(r) = n - 1}, x \in S}

\* df_data = pd.read_csv(...); source_data = df_data.to_json(orient='records');
\* json_lst = json.loads(source_data); json_lst[0]: the batch is loaded and
\* its first record shown.  For a batch without records json_lst[0] raises
\* IndexError and the evaluation ends there.
LoadBatch ==
    /\ epc = "load"
    /\ IF samples = <<>>
       THEN /\ accuracy' = [status |-> "IndexError", num |-> 0, den |-> 1]
            /\ epc' = "done"
       ELSE /\ accuracy' = accuracy
            /\ epc' = "invoke"
    /\ UNCHANGED <<samples, predictions, errorCount, table, evariant>>
    /\ UNCHANGED <<endpointVars, registry, experimentVars>>

\* what the invocation loop keeps for a sample whose invocation failed
FailedResponse == <<>>

\* One turn of the per-sample loop: invoke the endpoint for the next sample,
\* pinned to the variant; a failed invocation is kept in its place, counted,
\* and the loop goes on.
InvokeSample ==
    /\ epc = "invoke"
    /\ Len(predictions) < Len(samples)
    /\ LET s == samples[Len(predictions) + 1]
       IN /\ predictions' = Append(predictions,
                                   IF s.ok THEN s.response ELSE FailedResponse)
          /\ errorCount' = IF s.ok THEN errorCount ELSE errorCount + 1
    /\ UNCHANGED <<samples, table, accuracy, evariant, epc>>
    /\ UNCHANGED <<endpointVars, registry, experimentVars>>

\* the loop is over: every sample has been invoked
InvokeDone ==
    /\ epc = "invoke"
    /\ Len(predictions) = Len(samples)
    /\ epc' = "table"
    /\ UNCHANGED <<samples, predictions, errorCount, table, accuracy, evariant>>
    /\ UNCHANGED <<endpointVars, registry, experimentVars>>

MaxScore(resp) ==
    CHOOSE m \in {resp[i].score : i \in DOMAIN resp} :
        \A i \in DOMAIN resp : resp[i].score <= m

\* tmp_df[tmp_df['score'] == max(tmp_df['score'])]: the rows of best score
TopRows(resp) == SelectSeq(resp, LAMBDA r : r.score = MaxScore(resp))

LabelsOf(rows) == [i \in DOMAIN rows |-> rows[i].label]

\* the response the table cell reads in its k-th turn: json.loads(predictions[0])[0]
\* whatever the turn (index 1 here, sequences being 1-based)
ResponseRead(preds, k) == preds[1]

RECURSIVE TableRows(_, _)
TableRows(preds, k) ==
    IF k = 0 THEN <<>>
    ELSE TableRows(preds, k - 1) \o LabelsOf(TopRows(ResponseRead(preds, k)))

\* for prediction in predictions: ... df = df.append(new_row): one turn per
\* response.  A response that cannot be parsed ends the cell with an error.
BuildTable ==
    /\ epc = "table"
    /\ IF predictions # <<>> /\ ResponseRead(predictions, 1) = FailedResponse
       THEN /\ table' = <<>>
            /\ accuracy' = [status |-> "TableError", num |-> 0, den |-> 1]
            /\ epc' = "done"
       ELSE /\ table' = TableRows(predictions, Len(predictions))
            /\ accuracy' = accuracy
            /\ epc' = "map"
    /\ UNCHANGED <<samples, predictions, errorCount, evariant>>
    /\ UNCHANGED <<endpointVars, registry, experimentVars>>

\* df.replace({'label': value_map}): a label of the map becomes its number,
\* any other label stays
ApplyValueMap(vm, l) == IF l \in DOMAIN vm THEN vm[l] ELSE l

MapLabels ==
    /\ epc = "map"
    /\ table' = [i \in DOMAIN table |-> ApplyValueMap(ValueMapOf(evariant), table[i])]
    /\ epc' = "accuracy"
    /\ UNCHANGED <<samples, predictions, errorCount, accuracy, evariant>>
    /\ UNCHANGED <<endpointVars, registry, experimentVars>>

\* df_with_labels.replace({'sentiment': value_map}).iloc[:, 1].to_numpy()
GroundTruth(ss) == [i \in DOMAIN ss |-> ApplyValueMap(GroundTruthMap, ss[i].expected)]

\* sum(preds == labels): element by element for equal lengths, a length of one
\* is stretched to the other's, other lengths do not compare
Matches(preds, labels) ==
    IF Len(preds) = Len(labels)
    THEN Cardinality({i \in DOMAIN preds : preds[i] = labels[i]})
    ELSE IF Len(preds) = 1
    THEN Cardinality({i \in DOMAIN labels : preds[1] = labels[i]})
    ELSE Cardinality({i \in DOMAIN preds : preds[i] = labels[1]})

Comparable(preds, labels) ==
    Len(preds) = Len(labels) \/ Len(preds) = 1 \/ Len(labels) = 1

\* accuracy = sum(preds == labels) / len(labels)
AccuracyOf(preds, labels) ==
    IF ~Comparable(preds, labels)
    THEN [status |-> "TypeError", num |-> 0, den |-> 1]
    ELSE IF Len(labels) = 0
    THEN [status |-> "ZeroDivisionError", num |-> 0, den |-> 0]
    ELSE [status |-> "ok", num |-> Matches(preds, labels), den |-> Len(labels)]

Accuracy ==
    /\ epc = "accuracy"
    /\ accuracy' = AccuracyOf(table, GroundTruth(samples))
    /\ epc' = "done"
    /\ UNCHANGED <<samples, predictions, errorCount, table, evariant>>
    /\ UNCHANGED <<endpointVars, registry, experimentVars>>

\* the endpoint the evaluation runs against: InService with the initial 1/1
EndpointInService ==
    /\ epState = "InService"
    /\ weights = WeightMap(1, 1)
    /\ desired = WeightMap(1, 1)
    /\ pc = "idle"
    /\ target = NoMap
    /\ polls = 0
    /\ mirror = NoMap
    /\ steps = <<>>
    /\ stepIdx = 0
    /\ pause = "none"
    /\ served = "none"
    /\ last = Result("none", NoMap, "ok", FALSE, 0)
    /\ registry = Declared(1, 1)
    /\ ExperimentsOff

InitEval ==
    /\ EndpointInService
    /\ evariant \in ProductionVariants
    /\ samples \in SeqsUpTo(SampleSet(evariant), MaxSamples)
    /\ predictions = <<>>
    /\ errorCount = 0
    /\ table = <<>>
    /\ accuracy = [status |-> "none", num |-> 0, den |-> 1]
    /\ epc = "load"

NextEval ==
    \/ LoadBatch
    \/ InvokeSample
    \/ InvokeDone
    \/ BuildTable
    \/ MapLabels
    \/ Accuracy

SpecEval == InitEval /\ [][NextEval]_vars

----------------------------------------------------------------------------
(* The experiment notebook: train_model and log_performance *)

\* one call of the Run's logging interface, in the order of the calls
Event(kind, name, step) == [kind |-> kind, name |-> name, step |-> step]

\* optimizer strings train_model is called with: its default and the two
\* documented options, and the first run's "SGD"
OptimizerArgs == {"sgd", "adam", "SGD"}

HiddenChannelArgs == {3, 5}

\* if optimizer == "sgd": torch.optim.SGD(...) else: torch.optim.Adam(...)
OptimizerFor(o) == IF o = "sgd" THEN "SGD" ELSE "Adam"

\* run.log_parameter("device", "cpu"); run.log_parameters({...}): the
\* arguments as they were passed
LoggedParameters(t) ==
    [device |-> "cpu", data_dir |-> "mnist_data", optimizer |-> t.optimizer,
     epochs |-> t.epochs, hidden_channels |-> t.hidden_channels]

ParameterEvents ==
    << Event("parameter", "device", 0), Event("parameter", "data_dir", 0),
       Event("parameter", "optimizer", 0), Event("parameter", "epochs", 0),
       Event("parameter", "hidden_channels", 0) >>

\* the first lines of train_model: the parameters are logged
TrainLogParameters ==
    /\ train.pc = "start"
    /\ train' = [train EXCEPT !.pc = "optimizer",
                              !.params = LoggedParameters(train),
                              !.log = @ \o ParameterEvents]
    /\ UNCHANGED <<endpointVars, evalVars, registry, sweep, analysis>>

\* model, loaders and optimizer are set up; for epoch in range(1, epochs + 1)
TrainChooseOptimizer ==
    /\ train.pc = "optimizer"
    /\ train' = [train EXCEPT !.used = OptimizerFor(train.optimizer),
                              !.epoch = IF train.epochs >= 1 THEN 1 ELSE 0,
                              !.pc = IF train.epochs >= 1 THEN "train" ELSE "confusion"]
    /\ UNCHANGED <<endpointVars, evalVars, registry, sweep, analysis>>

\* the training pass of the epoch: every batch of the train loader
TrainEpochPass ==
    /\ train.pc = "train"
    /\ train' = [train EXCEPT !.trained = train.epoch, !.pc = "logTrain"]
    /\ UNCHANGED <<endpointVars, evalVars, registry, sweep, analysis>>

\* a log_metric call without its step
MetricStepNone(e) == 0

\* run.log_metric(name=..., value=..., step=epoch)
MetricStep(e) == e

\* log_performance(model, loader, device, epoch, run, metric_type): loss and
\* accuracy over the loader, then the two log_metric calls
PerformanceEvents(metricType, e) ==
    << Event("metric", metricType \o ":loss", MetricStep(e)),
       Event("metric", metricType \o ":accuracy", MetricStep(e)) >>

\* log_performance(model, train_loader, device, epoch, run, "Train")
TrainLogTrain ==
    /\ train.pc = "logTrain"
    /\ train' = [train EXCEPT !.log = @ \o PerformanceEvents("Train", train.epoch),
                              !.pc = "logTest"]
    /\ UNCHANGED <<endpointVars, evalVars, registry, sweep, analysis>>

\* log_performance(model, test_loader, device, epoch, run, "Test"), then the
\* next turn of the epoch loop or, after the last epoch, the confusion matrix
TrainLogTest ==
    /\ train.pc = "logTest"
    /\ train' = [train EXCEPT !.log = @ \o PerformanceEvents("Test", train.epoch),
                              !.epoch = IF train.epoch < train.epochs
                                        THEN train.epoch + 1 ELSE train.epoch,
                              !.pc = IF train.epoch < train.epochs
                                     THEN "train" ELSE "confusion"]
    /\ UNCHANGED <<endpointVars, evalVars, registry, sweep, analysis>>

\* for data, target in test_loader: ... run.log_confusion_matrix(target, pred,
\* "Confusion-Matrix-Test-Data"), one call per batch
TrainLogConfusion ==
    /\ train.pc = "confusion"
    /\ IF train.batch < TestBatches
       THEN train' = [train EXCEPT
                        !.log = Append(@, Event("confusion", "Confusion-Matrix-Test-Data", 0)),
                        !.batch = train.batch + 1]
       ELSE train' = [train EXCEPT !.pc = "done"]
    /\ UNCHANGED <<endpointVars, evalVars, registry, sweep, analysis>>

InitTrain ==
    /\ InitEndpoint
    /\ registry = <<>>
    /\ sweep = SweepOff
    /\ analysis = AnalysisOff
    /\ train \in {[TrainOff EXCEPT !.pc = "start", !.optimizer = o, !.epochs = n,
                                   !.hidden_channels = h] :
                    o \in OptimizerArgs, n \in 0..MaxEpochs, h \in HiddenChannelArgs}

NextTrain ==
    \/ TrainLogParameters
    \/ TrainChooseOptimizer
    \/ TrainEpochPass
    \/ TrainLogTrain
    \/ TrainLogTest
    \/ TrainLogConfusion

SpecTrain == InitTrain /\ [][NextTrain]_vars

----------------------------------------------------------------------------
(* The script-mode notebook: the first run and the hyperparameter sweep *)

run_name_base == "run-example"

\* run_name = name_from_base(run_name_base, short=True): the base and a
\* timestamp
run_name == run_name_base \o "-" \o "timestamp"

\* hidden_channels = [5, 10]; optimizer = ["adam", "sgd"]
HiddenChannels == <<5, 10>>

Optimizers == <<"adam", "sgd">>

\* run_name_n = f"{run_name_base}-{j}-{h}"
RunNameN(j, h) == run_name_base \o "-" \o j \o "-" \o ToString(h)

\* the hyperparameters of the cell's estimator
CellHyperparameters(sw) ==
    IF sw.cell = "first"
    THEN [hidden_channels |-> 5, optimizer |-> "adam"]
    ELSE [hidden_channels |-> HiddenChannels[sw.h], optimizer |-> Optimizers[sw.j]]

\* how a training job ends; fit returns when the job has Completed, returns
\* (with a warning logged) when it was Stopped, and raises when it Failed
JobOutcomes == {"Completed", "Failed", "Stopped"}

\* with Run(experiment_name=..., run_name=...) as run: the Run is opened
SweepOpenRun ==
    /\ sweep.pc = "loop"
    /\ LET n == IF sweep.cell = "first" THEN run_name
                ELSE RunNameN(Optimizers[sweep.j], HiddenChannels[sweep.h])
       IN  sweep' = [sweep EXCEPT !.name = n, !.open = @ \cup {n}, !.pc = "inRun"]
    /\ UNCHANGED <<endpointVars, evalVars, registry, train, analysis>>

\* a fit that returns as soon as the job is started (wait=False)
SweepStartJobNoWait ==
    /\ sweep.pc = "inRun"
    /\ sweep' = [sweep EXCEPT
                   !.jobs = Append(@, [run |-> sweep.name, cell |-> sweep.cell,
                                       hyperparameters |-> CellHyperparameters(sweep),
                                       status |-> "InProgress"]),
                   !.pc = "exit"]
    /\ UNCHANGED <<endpointVars, evalVars, registry, train, analysis>>

\* estmator = PyTorch(... hyperparameters ...); estmator.fit(wait=True): the
\* training job is started and the call waits for it
SweepStartJob ==
    /\ sweep.pc = "inRun"
    /\ sweep' = [sweep EXCEPT
                   !.jobs = Append(@, [run |-> sweep.name, cell |-> sweep.cell,
                                       hyperparameters |-> CellHyperparameters(sweep),
                                       status |-> "InProgress"]),
                   !.pc = "fitting"]
    /\ UNCHANGED <<endpointVars, evalVars, registry, train, analysis>>

\* the job ends: fit returns, or raises when the job has failed
SweepJobEnds(outcome) ==
    /\ sweep.pc = "fitting"
    /\ sweep' = [sweep EXCEPT !.jobs[Len(sweep.jobs)].status = outcome,
                              !.raised = (outcome = "Failed"),
                              !.pc = "exit"]
    /\ UNCHANGED <<endpointVars, evalVars, registry, train, analysis>>

\* the end of the with block, left normally or by the exception: the Run is
\* closed; then the next turn of the loops, the end of the cell, or the
\* exception ends the cell.  The sweep cell is run after the first cell
\* whatever that one's outcome.
SweepCloseRun ==
    /\ sweep.pc = "exit"
    /\ LET shut == [sweep EXCEPT !.open = @ \ {sweep.name},
                                 !.closed = @ \cup {sweep.name}]
       IN  sweep' =
             IF sweep.cell = "first"
             THEN [shut EXCEPT !.cell = "sweep", !.h = 1, !.j = 1,
                               !.raised = FALSE, !.pc = "loop"]
             ELSE IF sweep.raised
             THEN [shut EXCEPT !.pc = "failed"]
             ELSE IF sweep.j < Len(Optimizers)
             THEN [shut EXCEPT !.j = sweep.j + 1, !.pc = "loop"]
             ELSE IF sweep.h < Len(HiddenChannels)
             THEN [shut EXCEPT !.h = sweep.h + 1, !.j = 1, !.pc = "loop"]
             ELSE [shut EXCEPT !.pc = "done"]
    /\ UNCHANGED <<endpointVars, evalVars, registry, train, analysis>>

InitSweep ==
    /\ InitEndpoint
    /\ registry = <<>>
    /\ train = TrainOff
    /\ analysis = AnalysisOff
    /\ sweep = [SweepOff EXCEPT !.pc = "loop"]

NextSweep ==
    \/ SweepOpenRun
    \/ SweepStartJob
    \/ \E outcome \in JobOutcomes : SweepJobEnds(outcome)
    \/ SweepCloseRun

SpecSweep == InitSweep /\ [][NextSweep]_vars

----------------------------------------------------------------------------
(* analyze_experiment, the same function in both experiment notebooks *)

\* the parameters the runs log, and the columns of the metrics' last values
ParameterNames == {"device", "data_dir", "optimizer", "epochs", "hidden_channels"}

MetricColumns == {"Train:accuracy - Last", "Test:accuracy - Last",
                  "Train:loss - Last", "Test:loss - Last"}

\* The trial components of an experiment: "run" is a component a Run
\* created (it has no source); "job" is the component of a training job,
\* whose source is the job.
Components == {"run", "job"}

\* The experiments the analysis is run on: runs only (the notebook-mode
\* notebook), or runs and the training jobs they started (the script-mode
\* notebook).
Experiments == {{"run"}, {"run", "job"}}

\* The row ExperimentAnalytics reshapes a component into.  SourceArn is NaN
\* for a component without a source.
AnalyticsRow(c) ==
    [col \in ParameterNames \cup MetricColumns \cup {"DisplayName", "SourceArn"} |->
        CASE col = "device" -> "cpu"
          [] col = "data_dir" -> "mnist_data"
          [] col = "optimizer" -> IF c = "run" THEN "SGD" ELSE "adam"
          [] col = "DisplayName" -> IF c = "run" THEN "run-example" ELSE "pytorch-training"
          [] col = "SourceArn" -> IF c = "run" THEN "NaN" ELSE "arn:training-job"
          [] col = "epochs" -> IF c = "run" THEN 6 ELSE 10
          [] col = "hidden_channels" -> IF c = "run" THEN 3 ELSE 5
          [] OTHER -> 0]

\* The columns of the dataframe: the names, the parameters asked for (every
\* logged parameter when the list of names is empty), the metrics, and
\* SourceArn when a component of the experiment has a source.
AnalyticsColumns(experiment, parameters) ==
    {"DisplayName"} \cup (IF parameters = {} THEN ParameterNames ELSE parameters)
        \cup MetricColumns
        \cup (IF "job" \in experiment THEN {"SourceArn"} ELSE {})

\* the dtype of a column: epochs, hidden_channels and the metrics are number
\* columns; the string-valued parameters, the display name and a column of
\* joined strings are object columns
Dtype(c) ==
    IF c \in {"epochs", "hidden_channels"} \cup MetricColumns
    THEN "number" ELSE "object"

\* df[names].select_dtypes(dtype).columns: the names of that dtype, in order
RECURSIVE SelectDtypes(_, _)
SelectDtypes(names, dtype) ==
    IF names = <<>> THEN <<>>
    ELSE IF Dtype(Head(names)) = dtype
         THEN <<Head(names)>> \o SelectDtypes(Tail(names), dtype)
         ELSE SelectDtypes(Tail(names), dtype)

\* sep.join(strings)
RECURSIVE Join(_, _)
Join(strings, sep) ==
    IF strings = <<>> THEN ""
    ELSE IF Len(strings) = 1 THEN strings[1]
    ELSE strings[1] \o sep \o Join(Tail(strings), sep)

Elements(seq) == {seq[i] : i \in 1..Len(seq)}

\* the values of a row in the given columns
ValuesOf(row, names) == [i \in 1..Len(names) |-> row[names[i]]]

Restrict(row, cols) == [c \in cols |-> row[c]]

\* trial_component_analytics = ExperimentAnalytics(experiment_name,
\* parameter_names); df = trial_component_analytics.dataframe(): one row
\* per component of the experiment
AnalyzeDataframe ==
    /\ analysis.pc = "start"
    /\ LET cols == AnalyticsColumns(analysis.experiment, Elements(analysis.parameters))
       IN  analysis' = [analysis EXCEPT
                          !.columns = cols,
                          !.rows = [c \in analysis.experiment |->
                                      Restrict(AnalyticsRow(c), cols)],
                          !.pc = "frame"]
    /\ UNCHANGED <<endpointVars, evalVars, registry, train, sweep>>

\* df["SourceArn"].isna(): the rows without a source
RowsKept(rows) == {c \in DOMAIN rows : rows[c]["SourceArn"] = "NaN"}

\* df = df[df["SourceArn"].isna()]: the rows with a source are dropped; a
\* dataframe without the column SourceArn raises KeyError
AnalyzeRows ==
    /\ analysis.pc = "frame"
    /\ IF "SourceArn" \in analysis.columns
       THEN analysis' = [analysis EXCEPT
                           !.rows = Restrict(analysis.rows, RowsKept(analysis.rows)),
                           !.pc = "rows"]
       ELSE analysis' = [analysis EXCEPT !.result = "KeyError", !.pc = "raised"]
    /\ UNCHANGED <<endpointVars, evalVars, registry, train, sweep>>

\* df = df.filter(regex=re_expr): the display name, the parameters asked
\* for and the metrics' columns stay
AnalyzeFilter ==
    /\ analysis.pc = "rows"
    /\ LET cols == analysis.columns \cap
                     ({"DisplayName"} \cup Elements(analysis.parameters) \cup MetricColumns)
       IN  analysis' = [analysis EXCEPT
                          !.columns = cols,
                          !.rows = [c \in DOMAIN analysis.rows |->
                                      Restrict(analysis.rows[c], cols)],
                          !.pc = "filtered"]
    /\ UNCHANGED <<endpointVars, evalVars, registry, train, sweep>>

\* df_temp = df[parameter_names].select_dtypes("object");
\* cat_col_name = "_".join(df_temp.columns.values)
AnalyzeCategorical ==
    /\ analysis.pc = "filtered"
    /\ LET cat == SelectDtypes(analysis.parameters, "object")
       IN  analysis' = [analysis EXCEPT !.categorical = cat,
                                        !.cat_col_name = Join(cat, "_"),
                                        !.pc = "join"]
    /\ UNCHANGED <<endpointVars, evalVars, registry, train, sweep>>

\* the dataframe after the joined column is added and the joined columns
\* are dropped
JoinedColumns(a) == (a.columns \cup {a.cat_col_name}) \ Elements(a.categorical)

\* if len(df_temp.columns) > 1: df.loc[:, cat_col_name] = ...apply("_".join);
\* df = df.drop(columns=df_temp.columns.values)
AnalyzeJoin ==
    /\ analysis.pc = "join"
    /\ IF Len(analysis.categorical) > 1
       THEN LET cols == JoinedColumns(analysis)
            IN  analysis' =
                  [analysis EXCEPT
                     !.columns = cols,
                     !.rows = [c \in DOMAIN analysis.rows |->
                                 [col \in cols |->
                                    IF col = analysis.cat_col_name
                                    THEN Join(ValuesOf(analysis.rows[c],
                                                       analysis.categorical), "_")
                                    ELSE analysis.rows[c][col]]],
                     !.pc = "ordinal"]
       ELSE analysis' = [analysis EXCEPT !.pc = "ordinal"]
    /\ UNCHANGED <<endpointVars, evalVars, registry, train, sweep>>

\* ordinal_params = df[parameter_names].select_dtypes("number").columns.tolist():
\* indexing with a name that is no column raises KeyError
AnalyzeOrdinal ==
    /\ analysis.pc = "ordinal"
    /\ IF Elements(analysis.parameters) \subseteq analysis.columns
       THEN analysis' = [analysis EXCEPT
                           !.ordinal_params =
                               SelectDtypes(analysis.parameters, "number"),
                           !.pc = "melt"]
       ELSE analysis' = [analysis EXCEPT !.result = "KeyError", !.pc = "raised"]
    /\ UNCHANGED <<endpointVars, evalVars, registry, train, sweep>>

\* df_plot = df.melt(id_vars=["DisplayName"] + ordinal_params + [cat_col_name]):
\* an id variable that is no column raises KeyError
AnalyzeMelt ==
    /\ analysis.pc = "melt"
    /\ IF ({"DisplayName", analysis.cat_col_name} \cup Elements(analysis.ordinal_params))
             \subseteq analysis.columns
       THEN analysis' = [analysis EXCEPT !.melted = TRUE, !.pc = "plot"]
       ELSE analysis' = [analysis EXCEPT !.result = "KeyError", !.pc = "raised"]
    /\ UNCHANGED <<endpointVars, evalVars, registry, train, sweep>>

\* the figure with one subfigure per ordinal parameter; what
\* f.subfigures(1, 0) does is the plotting library's business
PlotOutcomes(a) ==
    IF a.ordinal_params = <<>> THEN {"figure", "ValueError"} ELSE {"figure"}

\* f = plt.Figure(...); sf = f.subfigures(1, len(ordinal_params)); one plot
\* per ordinal parameter with color=cat_col_name; return f
AnalyzePlot(outcome) ==
    /\ analysis.pc = "plot"
    /\ outcome \in PlotOutcomes(analysis)
    /\ analysis' = [analysis EXCEPT
                      !.result = outcome,
                      !.pc = IF outcome = "figure" THEN "returned" ELSE "raised"]
    /\ UNCHANGED <<endpointVars, evalVars, registry, train, sweep>>

\* parameter lists: distinct names of logged parameters
ParameterLists ==
    {p \in UNION {[1..n -> ParameterNames] : n \in 0..MaxParameters} :
        \A i, k \in 1..Len(p) : i # k => p[i] # p[k]}

InitAnalysis ==
    /\ InitEndpoint
    /\ registry = <<>>
    /\ train = TrainOff
    /\ sweep = SweepOff
    /\ analysis \in {[AnalysisOff EXCEPT !.pc = "start", !.parameters = p,
                                         !.experiment = e] :
                       p \in ParameterLists, e \in Experiments}

NextAnalysis ==
    \/ AnalyzeDataframe
    \/ AnalyzeRows
    \/ AnalyzeFilter
    \/ AnalyzeCategorical
    \/ AnalyzeJoin
    \/ AnalyzeOrdinal
    \/ AnalyzeMelt
    \/ \E outcome \in {"figure", "ValueError"} : AnalyzePlot(outcome)

SpecAnalysis == InitAnalysis /\ [][NextAnalysis]_vars

----------------------------------------------------------------------------
(* Claims about the endpoint workflow *)

\* C1: whenever shiftTraffic returns normally, the weights read from the
\* service at that moment equal the target mapping exactly; it never returns
\* normally while the endpoint still reports other weights.
ShiftReturnsAtTarget ==
    [][(pc = "shift" /\ pc' # "shift" /\ last'.outcome = "ok")
        => (weights' = target /\ mirror' = target)]_vars

\* a shiftTraffic to 75/25 has returned normally and the service reports 75/25
ShiftReturnedWitness ==
    /\ pc = "idle"
    /\ last.op = "shiftTraffic"
    /\ last.outcome = "ok"
    /\ last.arg = WeightMap(75, 25)
    /\ weights = WeightMap(75, 25)
    /\ epState = "InService"

\* C2: a wait whose last poll of the budget still does not read the target
\* fails with RolloutTimeoutError, and a wait that fails (a cancelled wait
\* set aside) does so only that way; the failing step writes nothing to the
\* endpoint (no rollback), so the endpoint's weights are those last read
\* from the service.
ShiftTimeoutLeavesWeights ==
    [][/\ (pc = "shift" /\ (pc' # pc \/ polls' # polls)
           /\ polls + 1 >= MaxPolls /\ weights # target
           /\ last'.outcome # "Cancelled")
          => (pc' = "idle" /\ last'.outcome = "RolloutTimeoutError")
       /\ (pc = "shift" /\ pc' = "idle" /\ last'.outcome \notin {"ok", "Cancelled"})
          => /\ last'.outcome = "RolloutTimeoutError"
             /\ polls + 1 >= MaxPolls
             /\ weights' = weights
             /\ mirror' = weights'
             /\ mirror' # target
             /\ epState' = epState
             /\ desired' = desired]_vars

\* a shiftTraffic from 1/1 to 75/25 has timed out: the weights are the ones
\* last read, and the update is still in flight or has failed
ShiftTimeoutWitness ==
    /\ pc = "idle"
    /\ last.op = "shiftTraffic"
    /\ last.outcome = "RolloutTimeoutError"
    /\ last.arg = WeightMap(75, 25)
    /\ weights = WeightMap(1, 1)
    /\ mirror = weights
    /\ desired = WeightMap(75, 25)

\* C3: when step k of a progressive rollout on an endpoint in service fails
\* (its update request is rejected or its wait fails), the surfaced error
\* carries the index k, the
\* rollout is over (no later step can be issued), and at that moment the
\* weights are those of step k-1 (for k = 1, the failing step leaves the
\* weights as they were).
RolloutFailureStops ==
    [][(\/ (pc = "shift" /\ stepIdx >= 1 /\ pc' = "idle" /\ last'.outcome # "ok")
        \/ (RolloutNext /\ pc' = "idle")
        \/ (/\ epState = "InService"
            /\ \E ss \in StepLists : ProgressiveRollout(ss)
            /\ pc' = "idle"))
        => LET k == IF pc = "shift" THEN stepIdx
                    ELSE IF RolloutNext THEN stepIdx + 1
                    ELSE 1
           IN /\ last'.step = k
              /\ steps' = <<>>
              /\ stepIdx' = 0
              /\ weights' = weights
              /\ k > 1 => weights' = steps[k - 1]]_vars

\* C4: a setWeights whose mapping has a key that names no variant of the
\* endpoint (InService, at its initial 1/1) fails with UnknownVariantError, issues no update
\* request to the service, and leaves the endpoint's weights and state
\* unchanged.
SetWeightsUnknownVariantNoRequest ==
    [][(\E m \in RequestMaps :
            /\ ~(DOMAIN m \subseteq ProductionVariants)
            /\ epState = "InService"
            /\ weights = WeightMap(1, 1)
            /\ SetWeights(m))
        => /\ last'.outcome = "UnknownVariantError"
           /\ ~last'.issued
           /\ UNCHANGED <<epState, weights, desired>>]_vars

\* C5: while the endpoint is InService the sum of its variants' weights is
\* greater than 0.
InServiceWeightSumPositive ==
    epState = "InService" => WeightSum(weights) > 0

\* the lifecycle's transitions, with the endpoint's creation as its entry
LifecycleTransitionSet ==
    { <<"None", "Creating">>,
      <<"Creating", "InService">>, <<"Creating", "Error">>,
      <<"InService", "Updating">>,
      <<"Updating", "InService">>, <<"Updating", "Error">>,
      <<"InService", "Deleting">>, <<"Updating", "Deleting">>,
      <<"Deleting", "Deleted">> }

\* C6: the endpoint's lifecycle takes only the transitions Creating ->
\* InService | Error, InService -> Updating -> InService | Error and
\* InService/Updating -> Deleting -> Deleted; no call moves a Deleted endpoint
\* to any other state.
LifecycleTransitionsOnly ==
    [][epState' # epState => <<epState, epState'>> \in LifecycleTransitionSet]_vars

\* the endpoint is Deleted and a setWeights has been tried on it since
DeletedStaysWitness ==
    /\ epState = "Deleted"
    /\ last.op = "setWeights"
    /\ last.outcome # "ok"

\* C7: a delete of an endpoint (created at 1/1) that is already Deleted
\* succeeds and leaves it Deleted.
DeleteTwiceSucceeds ==
    [][(epState = "Deleted" /\ weights = WeightMap(1, 1) /\ Delete)
        => (last'.outcome = "ok" /\ epState' = "Deleted")]_vars

----------------------------------------------------------------------------
(* Claims about the evaluation *)

\* the label a sample's own response puts first
OwnLabel(s) == LabelsOf(TopRows(s.response))[1]

\* the samples whose invocation got through and whose own mapped label is
\* the expected one
CorrectSamples(ss, v) ==
    {i \in DOMAIN ss :
        /\ ss[i].ok
        /\ ApplyValueMap(ValueMapOf(v), OwnLabel(ss[i]))
             = ApplyValueMap(GroundTruthMap, ss[i].expected)}

FailedSamples(ss) == {i \in DOMAIN ss : ~ss[i].ok}

NoTies(ss) == \A i \in DOMAIN ss : Len(TopRows(ss[i].response)) = 1

\* C8: for a non-empty batch (every invocation answered, one best label per
\* response) the accuracy is exactly correct_count / len(samples), correct_count
\* being the number of samples whose own mapped label is the expected one, and
\* lies in [0, 1].
AccuracyIsCorrectFraction ==
    (epc = "done" /\ samples # <<>> /\ NoTies(samples)
       /\ FailedSamples(samples) = {})
    => /\ accuracy.status = "ok"
       /\ accuracy.den = Len(samples)
       /\ accuracy.num = Cardinality(CorrectSamples(samples, evariant))
       /\ 0 <= accuracy.num
       /\ accuracy.num <= accuracy.den

\* C9: an empty batch ends in EmptyBatchError; no evaluation ever reaches a
\* division by zero.
EmptyBatchGuarded ==
    /\ (epc = "done" /\ samples = <<>>) => accuracy.status = "EmptyBatchError"
    /\ accuracy.status # "ZeroDivisionError"

\* C10: a failed invocation does not end the batch: every sample is invoked,
\* error_count is the number of failed invocations, the accuracy is computed,
\* and a failed sample is not among the correct ones, so that
\* correct_count + error_count <= len(samples).
FailedSampleTolerated ==
    (epc = "done" /\ samples # <<>> /\ NoTies(samples) /\ samples[1].ok)
    => /\ Len(predictions) = Len(samples)
       /\ errorCount = Cardinality(FailedSamples(samples))
       /\ accuracy.status = "ok"
       /\ accuracy.num + errorCount <= Len(samples)

\* C24: the prediction table has exactly one row per response, and row i
\* holds the highest-score label of the i-th response (every invocation
\* answered, one best label per response).
TableRowPerResponse ==
    (epc = "map" /\ NoTies(samples) /\ FailedSamples(samples) = {})
    => /\ Len(table) = Len(predictions)
       /\ \A i \in DOMAIN table : table[i] = LabelsOf(TopRows(predictions[i]))[1]

\* the sentiment a predicted label names, in either variant's vocabulary
SentimentOf(l) ==
    IF l \in {"LABEL_0", "NEGATIVE"} THEN "negative"
    ELSE IF l = "LABEL_1" THEN "neutral"
    ELSE "positive"

\* C25: the label map of the variant under evaluation and the ground-truth
\* map give a sentiment the same integer, so that a sample (a batch of one,
\* its invocation answered, one best label) is counted correct exactly when
\* the predicted sentiment is the expected one.
LabelMapsAgree ==
    (epc = "done" /\ Len(samples) = 1 /\ NoTies(samples)
       /\ FailedSamples(samples) = {})
    => (accuracy.num = 1 <=> SentimentOf(OwnLabel(samples[1])) = samples[1].expected)

----------------------------------------------------------------------------
(* Claims about invocation, weight updates and the waits *)

PinTargets == {Variant1, Variant2, Variant3}

\* C11: an invocation with a target override is served by exactly that
\* variant whatever the weights (weight 0 included), and fails with
\* UnknownVariantError when the named variant is not on the endpoint.
PinnedInvocationServedByTarget ==
    [][\A tv \in PinTargets :
         (epState \in {"InService", "Updating"} /\ Invoke(tv))
         => /\ tv \notin ProductionVariants => last'.outcome = "UnknownVariantError"
            /\ tv \in ProductionVariants => (last'.outcome = "ok" /\ served' = tv)]_vars

\* an invocation pinned to Variant2 was served by Variant2 although its
\* weight is 0 (the endpoint is Updating, so the weights are those of the call)
PinnedZeroWeightWitness ==
    /\ epState = "Updating"
    /\ weights = WeightMap(1, 0)
    /\ last.op = "invoke"
    /\ last.outcome = "ok"
    /\ last.arg = [TargetVariant |-> Variant2]
    /\ served = Variant2

\* C12: a request without override is never served by a variant whose
\* current weight is 0, and the endpoint keeps all its variants whatever
\* weights an update gives them (a weight update never removes a variant).
ZeroWeightNotRoutedNotRemoved ==
    /\ [](EndpointExists(epState) => DOMAIN weights = ProductionVariants)
    /\ [][(Invoke("none") /\ last'.outcome = "ok") => weights[served'] > 0]_vars

\* Variant2 was set to weight 0 by an update naming only Variant2, it is
\* still a variant of the endpoint, and the unpinned request went to Variant1
ZeroWeightKeptWitness ==
    /\ epState = "Updating"
    /\ weights = WeightMap(75, 0)
    /\ last.op = "invoke"
    /\ last.arg = NoMap
    /\ last.outcome = "ok"
    /\ served = Variant1

\* C13: a weight update changes all the weights of its mapping in one step
\* of the control plane: the weights change only when an update is applied,
\* they are then the desired weights as a whole, and outside an update the
\* current weights are the desired ones.
WeightsChangeAtomically ==
    /\ [](epState = "InService" => weights = desired)
    /\ [][(epState # "None" /\ weights' # weights)
          => (epState = "Updating" /\ epState' = "InService" /\ weights' = desired)]_vars

\* an update that changes both weights has been applied
BothWeightsAppliedWitness ==
    /\ epState = "InService"
    /\ last.op = "setWeights"
    /\ last.outcome = "ok"
    /\ last.arg = WeightMap(75, 25)
    /\ weights = WeightMap(75, 25)
    /\ mirror = WeightMap(1, 1)

\* C14: a weight update sent while the endpoint is Updating fails with
\* UpdateRejectedError at once (the call is over, nothing is retried), and
\* changes neither the current weights nor the update in flight.
BusyUpdateRejected ==
    [][\A m \in ValidMaps \cup {PartialMap} :
         (epState = "Updating" /\ SetWeights(m))
         => /\ last' = Result("setWeights", m, "UpdateRejectedError", TRUE, 0)
            /\ pc' = "idle"
            /\ UNCHANGED <<epState, weights, desired>>]_vars

\* the 75/25 update is in flight and a second update (1/0) was rejected
BusyUpdateRejectedWitness ==
    /\ epState = "Updating"
    /\ weights = WeightMap(1, 1)
    /\ desired = WeightMap(75, 25)
    /\ last = Result("setWeights", WeightMap(1, 0), "UpdateRejectedError", TRUE, 0)

\* C15: awaitReady always terminates: a poll that observes InService,
\* Deleted or Error returns, and the poll that uses up the maximum wait
\* (MaxPolls polls) while the endpoint is still Creating fails with
\* ProvisioningTimeoutError instead of polling on.
AwaitReadyTimesOut ==
    [][(/\ pc = "await"
        /\ epState = "Creating"
        /\ weights = WeightMap(1, 1)
        /\ polls + 1 >= MaxPolls
        /\ \E cancel \in BOOLEAN : AwaitPoll(cancel))
       => (pc' = "idle" /\ last'.outcome = "ProvisioningTimeoutError")]_vars

\* C16: when a wait in flight (awaitReady or the wait of shiftTraffic) is
\* cancelled, the call ends there, without the remaining polls of its
\* budget, and writes nothing to the endpoint: lifecycle state, current and
\* desired weights are as they were when the cancellation was observed.
CancelledWaitEnds ==
    [][(AwaitPoll(TRUE) \/ ShiftPoll(TRUE))
        => /\ pc' = "idle"
           /\ polls' = 0
           /\ UNCHANGED <<epState, weights, desired>>]_vars

\* C18: currentWeights returns the control plane's weights as they are at
\* the time of the call, never the caller's mirror: the mapping returned
\* (and kept as the new mirror) is the service's current mapping, also when
\* the service changed the weights since the caller's last read.  The read
\* returns a mapping whenever the service knows the endpoint; for an endpoint
\* the service does not know the read raises the service's error, and the
\* mirror is neither returned nor changed.
CurrentWeightsReadsService ==
    [][CurrentWeights
       => /\ last'.op = "currentWeights"
          /\ last'.outcome = "ok" <=> epState \notin {"None", "Deleted"}
          /\ last'.outcome = "ok" => (last'.arg = weights /\ mirror' = weights)
          /\ last'.outcome # "ok" => (last'.arg = NoMap /\ mirror' = mirror)]_vars

\* the endpoint was created at 1/1, the service has applied 75/25, and the
\* read returned 75/25
CurrentWeightsFreshWitness ==
    /\ last = Result("currentWeights", WeightMap(75, 25), "ok", TRUE, 0)
    /\ epState = "InService"
    /\ weights = WeightMap(75, 25)
    /\ mirror = WeightMap(75, 25)

\* the wait of the notebook's last weight update has just returned
FinalUpdateDone ==
    /\ pc = "idle"
    /\ steps = NotebookSteps
    /\ stepIdx = Len(NotebookSteps)
    /\ last = Result("shiftTraffic", NotebookSteps[Len(NotebookSteps)], "ok",
                     TRUE, 0)

\* C19: after the notebook's final weight update completes, the weight of
\* Variant1 is 0 and the weight of Variant2 is 1, so that all unpinned
\* requests go to Variant2.
FinalUpdateAllToVariant2 ==
    FinalUpdateDone => (weights = WeightMap(0, 1) /\ Routable(weights) = {Variant2})

\* C20: after the notebook's final weight update completes, every unpinned
\* request is processed by Variant1 and none by Variant2: the request that
\* follows the update is served by Variant1, and so is every unpinned request
\* for as long as the endpoint is InService with the weights of that update.
AfterFinalUpdateServedByVariant1 ==
    /\ [][(FinalUpdateDone /\ Invoke("none"))
          => (last'.outcome = "ok" /\ served' = Variant1)]_vars
    /\ [][(/\ epState = "InService"
           /\ weights = NotebookSteps[Len(NotebookSteps)]
           /\ Invoke("none"))
          => (last'.outcome = "ok" /\ served' = Variant1)]_vars

\* an unpinned request sent after the final update was served by Variant1
\* (before it, the last request served was one pinned to Variant2)
AfterFinalUpdateServedWitness ==
    /\ epState = "InService"
    /\ weights = WeightMap(1, 0)
    /\ desired = WeightMap(1, 0)
    /\ mirror = WeightMap(1, 0)
    /\ last = Result("invoke", NoMap, "ok", TRUE, 0)
    /\ served = Variant1

\* C21: progressiveRollout applies its steps in the given order; the update
\* of step k+1 is issued only between the steps k and k+1, after the wait of
\* step k has returned and weights equal to step k's target have been read,
\* and after the pause between the steps has elapsed (the cells that follow
\* the wait have run, each in its turn: the read of the weights, the
\* invocations, the sleep); the target of step k are the endpoint's weights
\* when step k+1 is issued; a step's update is accepted only when no other
\* update is in flight.
RolloutStepsInOrder ==
    /\ [][RolloutNext
          => /\ mirror = steps[stepIdx]
             /\ weights = steps[stepIdx]
             /\ pause = "elapsed"
             /\ pc' = "shift" => (stepIdx' = stepIdx + 1 /\ target' = steps[stepIdx + 1])
             /\ pc' = "idle" => (last'.outcome # "ok" /\ last'.arg = steps[stepIdx + 1])]_vars
    /\ [][(stepIdx' # stepIdx /\ stepIdx' # 0)
          => /\ \/ (stepIdx' = 1 /\ pc = "idle")
                \/ (stepIdx' = stepIdx + 1 /\ BetweenSteps /\ pause = "elapsed")
             /\ epState = "InService"
             /\ epState' = "Updating"
             /\ desired' = steps'[stepIdx']]_vars
    /\ [][pause' # pause
          => \/ pause' = "none"
             \/ /\ pause' = "read"
                /\ pc = "shift"
                /\ pc' = "idle"
                /\ weights = target
                /\ mirror' = target
                /\ stepIdx >= 1 => target = steps[stepIdx]
             \/ (pause \in {"none", "read"} /\ pause' = "invoke" /\ CurrentWeights)
             \/ (pause = "invoke" /\ pause' = "sleep" /\ Invoke("none"))
             \/ (pause = "sleep" /\ pause' = "elapsed" /\ PauseSleep)]_vars

\* the second step (1/0) of the notebook's rollout is in flight: the wait of
\* the first step has read 75/25, which are still the endpoint's weights,
\* and the invocations between the steps were the caller's last calls
SecondStepIssuedWitness ==
    /\ pc = "shift"
    /\ steps = NotebookSteps
    /\ stepIdx = 2
    /\ target = WeightMap(1, 0)
    /\ epState = "Updating"
    /\ weights = WeightMap(75, 25)
    /\ mirror = WeightMap(75, 25)
    /\ last = Result("invoke", NoMap, "ok", TRUE, 0)
    /\ served = Variant2
    /\ polls = 0

\* C22: a variant's weight changes only as the effect of a setWeights
\* request: an invocation (pinned or not, those of an evaluation included),
\* a read of the current weights and a poll or return of awaitReady leave
\* every weight, the update in flight and the variant set as they were, and
\* the weights of an existing endpoint change only when the service applies
\* an accepted update.
OnlyUpdatesChangeWeights ==
    /\ [][((last' # last /\ last'.op \in {"invoke", "currentWeights", "awaitReady"})
           \/ (pc = "await" /\ polls' # polls))
          => /\ weights' = weights
             /\ desired' = desired
             /\ DOMAIN weights' = DOMAIN weights]_vars
    /\ [][(epState # "None" /\ weights' # weights)
          => (epState = "Updating" /\ weights' = desired /\ last' = last)]_vars

\* with the 1/0 update in flight, the weights 75/25 were read and are still
\* the endpoint's weights
ReadLeavesWeightsWitness ==
    /\ last = Result("currentWeights", WeightMap(75, 25), "ok", TRUE, 0)
    /\ epState = "Updating"
    /\ weights = WeightMap(75, 25)
    /\ desired = WeightMap(1, 0)

----------------------------------------------------------------------------
(* Claims about the declarations (checked under SpecRegistry) *)

Registered(reg, id) == \E i \in DOMAIN reg : reg[i].VariantName = id

\* C17: register fails with DuplicateVariantError for an identifier already
\* registered and with InvalidWeightError for a negative initial weight, and
\* leaves the registry unchanged in both cases; the registered identifiers
\* are pairwise distinct and every weight is >= 0.
RegisterRejectsDuplicateAndNegative ==
    /\ [][\A id \in VariantIds, w \in InitialWeights :
            (Register(id, w) /\ (Registered(registry, id) \/ w < 0))
            => /\ registry' = registry
               /\ last'.outcome = IF Registered(registry, id)
                                  THEN "DuplicateVariantError"
                                  ELSE "InvalidWeightError"]_vars
    /\ [](\A i, j \in DOMAIN registry :
            /\ registry[i].InitialVariantWeight >= 0
            /\ (i # j => registry[i].VariantName # registry[j].VariantName))

----------------------------------------------------------------------------
(* Claims about the notebook's workflow (checked under SpecNotebook) *)

\* C23: in the notebook's workflow every invocation and every weight-update
\* request is issued while the endpoint is InService (never while it is
\* Creating or Updating), and after delete_endpoint the notebook issues
\* nothing more.
NotebookRequestsInService ==
    /\ [][((\E tv \in {"none", Variant1, Variant2} : Invoke(tv))
           \/ (\E m \in RequestMaps : ShiftTraffic(m))
           \/ (\E ss \in StepLists : ProgressiveRollout(ss))
           \/ RolloutNext)
          => epState = "InService"]_vars
    /\ [][last.op = "delete" => UNCHANGED <<pc, last, mirror, served, desired>>]_vars

\* the workflow has run to its end: the endpoint, last at 1/0, is deleted
NotebookDoneWitness ==
    /\ last.op = "delete"
    /\ last.outcome = "ok"
    /\ epState = "Deleted"
    /\ weights = WeightMap(1, 0)
    /\ mirror = WeightMap(1, 0)
    /\ served = Variant1

----------------------------------------------------------------------------
(* Claims about the training (checked under SpecTrain) *)

\* the optimizer a string names, in whatever case it is written
OptimizerNamed(o) == IF o \in {"sgd", "SGD"} THEN "SGD" ELSE "Adam"

\* C26: train_model trains with SGD when its optimizer argument names sgd
\* and with Adam when it names adam, and the value logged as the run's
\* 'optimizer' parameter names the optimizer actually used, for every
\* optimizer string the notebook passes (the first run's "SGD" included).
LoggedOptimizerIsUsed ==
    train.used # "none"
    => /\ train.optimizer = "sgd" => train.used = "SGD"
       /\ train.optimizer = "adam" => train.used = "Adam"
       /\ OptimizerNamed(train.params.optimizer) = train.used

\* the events of one kind in the log, in the order they were logged
RECURSIVE EventsOf(_, _)
EventsOf(log, kind) ==
    IF log = <<>> THEN <<>>
    ELSE IF Head(log).kind = kind
         THEN <<Head(log)>> \o EventsOf(Tail(log), kind)
         ELSE EventsOf(Tail(log), kind)

\* the four metrics of the epochs 1..n, epoch by epoch: Train:loss,
\* Train:accuracy, Test:loss, Test:accuracy, each with the epoch as its step
RECURSIVE MetricsUpTo(_)
MetricsUpTo(n) ==
    IF n = 0 THEN <<>>
    ELSE MetricsUpTo(n - 1) \o
         << Event("metric", "Train:loss", n), Event("metric", "Train:accuracy", n),
            Event("metric", "Test:loss", n), Event("metric", "Test:accuracy", n) >>

IsPrefix(a, b) == Len(a) <= Len(b) /\ a = SubSeq(b, 1, Len(a))

\* C27: train_model(epochs=N) logs, for the epochs 1..N in increasing
\* order, Train:loss and Train:accuracy with the epoch as step and then
\* Test:loss and Test:accuracy with the same step, each (name, step) exactly
\* once and only after that epoch's training pass; the confusion matrix is
\* logged only after the metrics of step N, and the parameters of the run
\* before any metric.
MetricsLoggedInEpochOrder ==
    LET metrics == EventsOf(train.log, "metric")
        n == Len(train.log)
    IN  /\ IsPrefix(metrics, MetricsUpTo(train.epochs))
        /\ \A i \in 1..Len(metrics) : metrics[i].step <= train.trained
        /\ train.pc = "done" => metrics = MetricsUpTo(train.epochs)
        /\ \A i \in 1..n :
              train.log[i].kind = "confusion"
              => EventsOf(SubSeq(train.log, 1, i), "metric") = MetricsUpTo(train.epochs)
        /\ \A i \in 1..n :
              train.log[i].kind = "metric"
              => /\ i > Len(ParameterEvents)
                 /\ SubSeq(train.log, 1, Len(ParameterEvents)) = ParameterEvents

TrainingLoggedWitness ==
    /\ train.pc = "done"
    /\ train.epochs = 2
    /\ Len(EventsOf(train.log, "metric")) = 8
    /\ Len(EventsOf(train.log, "confusion")) = TestBatches

----------------------------------------------------------------------------
(* Claims about the sweep (checked under SpecSweep) *)

\* the jobs the sweep cell started
SweepJobs == {i \in 1..Len(sweep.jobs) : sweep.jobs[i].cell = "sweep"}

\* C28: the sweep starts exactly one training job for each pair of
\* hidden_channels in {5, 10} and optimizer in {adam, sgd}, each under a
\* run name of its own; a job is started only after the job before it has
\* finished and its Run was closed, at most one Run is open at any time,
\* and every opened Run is closed when the sweep has ended.
SweepOneJobPerPair ==
    /\ Cardinality(sweep.open) <= 1
    /\ \A i, k \in 1..Len(sweep.jobs) :
          i < k => /\ sweep.jobs[i].status # "InProgress"
                   /\ sweep.jobs[i].run \in sweep.closed
                   /\ sweep.jobs[i].run # sweep.jobs[k].run
    /\ \A i, k \in SweepJobs :
          i # k => sweep.jobs[i].hyperparameters # sweep.jobs[k].hyperparameters
    /\ sweep.pc \in {"done", "failed"}
       => \A h \in {5, 10}, o \in {"adam", "sgd"} :
             \E i \in SweepJobs :
                sweep.jobs[i].hyperparameters = [hidden_channels |-> h, optimizer |-> o]
    /\ sweep.pc \in {"done", "failed"}
       => /\ sweep.open = {}
          /\ \A i \in 1..Len(sweep.jobs) : sweep.jobs[i].run \in sweep.closed

\* the pairs in the order of the loops (for h in hidden_channels: for j in
\* optimizer)
PairsInLoopOrder ==
    <<[hidden_channels |-> 5, optimizer |-> "adam"],
      [hidden_channels |-> 5, optimizer |-> "sgd"],
      [hidden_channels |-> 10, optimizer |-> "adam"],
      [hidden_channels |-> 10, optimizer |-> "sgd"]>>

\* the place of job i among the jobs the sweep cell started
SweepRank(i) == Cardinality({k \in SweepJobs : k <= i})

\* C28 (amended): the sweep starts its jobs in the order of the loops, at
\* most one for each pair of hidden_channels in {5, 10} and optimizer in
\* {adam, sgd}, each under a run name of its own; a job is started only
\* after the job before it has ended without failing and its Run was
\* closed, and at most one Run is open at any time.  A sweep none of whose
\* jobs fails ends with exactly one job for each of the four pairs; a job
\* that fails ends the sweep with the pairs after it never started.  Either
\* way every opened Run is closed when the sweep has ended.
SweepJobsUntilFailure ==
    /\ Cardinality(sweep.open) <= 1
    /\ \A i, k \in 1..Len(sweep.jobs) :
          i < k => /\ sweep.jobs[i].status # "InProgress"
                   /\ sweep.jobs[i].run \in sweep.closed
                   /\ sweep.jobs[i].run # sweep.jobs[k].run
    /\ \A i \in SweepJobs :
          /\ SweepRank(i) <= Len(PairsInLoopOrder)
          /\ sweep.jobs[i].hyperparameters = PairsInLoopOrder[SweepRank(i)]
          /\ sweep.jobs[i].status = "Failed" => i = Len(sweep.jobs)
    /\ sweep.pc = "done"
       => /\ Cardinality(SweepJobs) = Len(PairsInLoopOrder)
          /\ \A i \in SweepJobs : sweep.jobs[i].status \in {"Completed", "Stopped"}
    /\ sweep.pc = "failed"
       => /\ SweepJobs # {}
          /\ sweep.jobs[Len(sweep.jobs)].status = "Failed"
    /\ sweep.pc \in {"done", "failed"}
       => /\ sweep.open = {}
          /\ \A i \in 1..Len(sweep.jobs) : sweep.jobs[i].run \in sweep.closed

\* the sweep has ended by the failure of its second job: the jobs of
\* (5, adam) and (5, sgd) were started, those of (10, adam) and (10, sgd)
\* were not
SweepFailedWitness ==
    /\ sweep.pc = "failed"
    /\ Cardinality(SweepJobs) = 2
    /\ sweep.jobs[Len(sweep.jobs)].status = "Failed"
    /\ sweep.jobs[Len(sweep.jobs)].hyperparameters
         = [hidden_channels |-> 5, optimizer |-> "sgd"]
    /\ sweep.open = {}

----------------------------------------------------------------------------
(* Claims about the analysis (checked under SpecAnalysis) *)

\* the object-typed parameters of the list the analysis was called with
CategoricalOf(a) == SelectDtypes(a.parameters, "object")

\* C29: for every parameter list with at least one categorical parameter,
\* analyze_experiment reaches the melt and the plot with a colour-key
\* column that is a column of the dataframe: the parameter itself when
\* exactly one is categorical; with two or more, one column whose name and
\* values are the originals joined by '_' replaces them, and the function
\* still completes and returns the figure.  Stated for the experiments whose
\* dataframe has the column SourceArn, which the function's row filter reads
\* before it looks at the parameters.
AnalysisKeepsColourKey ==
    (/\ analysis.pc \in {"returned", "raised"}
     /\ "job" \in analysis.experiment
     /\ Len(CategoricalOf(analysis)) >= 1)
    => /\ analysis.melted
       /\ analysis.cat_col_name \in analysis.columns
       /\ Len(CategoricalOf(analysis)) = 1
          => analysis.cat_col_name = CategoricalOf(analysis)[1]
       /\ Len(CategoricalOf(analysis)) > 1
          => /\ analysis.cat_col_name = Join(CategoricalOf(analysis), "_")
             /\ Elements(CategoricalOf(analysis)) \cap analysis.columns = {}
             /\ \A c \in DOMAIN analysis.rows :
                   analysis.rows[c][analysis.cat_col_name]
                     = Join(ValuesOf(AnalyticsRow(c), CategoricalOf(analysis)), "_")
             /\ analysis.result = "figure"

====
